---------------------------- MODULE Spec2Model ----------------------------
(***************************************************************************)
(* A model of bioio_tifffile.reader.Reader: construction, the memoized     *)
(* scene list and physical pixel size, the deferred (dask) read with its   *)
(* grid of delayed blocks, the immediate read, and the helpers they call.  *)
(*                                                                         *)
(* Python values are records tagged with their type ("kind"), so that the  *)
(* isinstance tests of the source are tests of the tag.  A string is a     *)
(* sequence of one-character strings; an identifier such as "Image:3" is   *)
(* the sequence <<"Image:", "3">> of its prefix and its decimal digits.    *)
(***************************************************************************)
EXTENDS Integers, Sequences, FiniteSets, TLC

VARIABLES
    alive,                  \* a Reader instance exists
    image,                  \* the file self._fs / self._path name
    chunk_dims,             \* self.chunk_dims
    _dim_order,             \* self._dim_order
    _channel_names,         \* self._channel_names
    _scenes,                \* self._scenes (memo)
    _physical_pixel_sizes,  \* self._physical_pixel_sizes (memo)
    _current_scene_index,   \* self._current_scene_index
    result,                 \* what the last call returned or raised
    log,                    \* the file accesses and warnings of the last call
    grid,                   \* the dask array of the last deferred read
    blocks,                 \* per delayed block: evaluation state and value
    handles                 \* open file handles: handle id -> owner

vars == <<alive, image, chunk_dims, _dim_order, _channel_names, _scenes,
          _physical_pixel_sizes, _current_scene_index, result, log, grid,
          blocks, handles>>

reader_fields == <<alive, image, chunk_dims, _dim_order, _channel_names,
                   _scenes, _physical_pixel_sizes, _current_scene_index>>

-----------------------------------------------------------------------------
(* Python values *)

None == [kind |-> "None"]
Str(s) == [kind |-> "str", val |-> s]
List(xs) == [kind |-> "list", val |-> xs]
Tuple(xs) == [kind |-> "tuple", val |-> xs]

IsNone(v) == v.kind = "None"
IsList(v) == v.kind = "list"
IsStr(v) == v.kind = "str"

Range(s) == {s[i] : i \in DOMAIN s}
Contains(s, x) == \E i \in DOMAIN s : s[i] = x

\* s.index(x) / s.find(x): the 0-based position of the first occurrence
IndexOf(s, x) == (CHOOSE i \in DOMAIN s : s[i] = x /\ \A j \in 1..(i - 1) : s[j] # x) - 1

RECURSIVE Product(_)
Product(s) == IF s = <<>> THEN 1 ELSE Head(s) * Product(Tail(s))

-----------------------------------------------------------------------------
(* bioio_base.dimensions, as the reader uses it *)

Channel == "C"
REQUIRED_CHUNK_DIMS == <<"Y", "X", "S">>
DEFAULT_CHUNK_DIMS == <<"Z", "Y", "X", "S">>
DEFAULT_DIMENSION_ORDER == <<"T", "C", "Z", "Y", "X">>
\* a label of the shape-only guess counted among the unknown ones
UNKNOWN_DIM_CHARS_with_Z == <<"Q", "I", "Z">>
UNKNOWN_DIM_CHARS == <<"Q", "I">>

\* str.upper() on the one-character strings the model uses
Upper(d) ==
    CASE d = "t" -> "T" [] d = "c" -> "C" [] d = "z" -> "Z"
      [] d = "y" -> "Y" [] d = "x" -> "X" [] d = "s" -> "S"
      [] OTHER -> d

-----------------------------------------------------------------------------
(* numpy / dask arrays: a shape and the element at every index (0-based) *)

RECURSIVE Indices(_)
Indices(shape) ==
    IF shape = <<>> THEN {<<>>}
    ELSE {<<h>> \o t : h \in 0..(Head(shape) - 1), t \in Indices(Tail(shape))}

\* row-major offset of idx in an array of this shape
RECURSIVE Offset(_, _)
Offset(shape, idx) ==
    IF shape = <<>> THEN 0
    ELSE idx[1] * Product(Tail(shape)) + Offset(Tail(shape), Tail(idx))

\* ndarray.transpose(axes): axis j of the result is axis axes[j] of arr
Transpose(arr, axes) ==
    LET shape == [j \in 1..Len(axes) |-> arr.shape[axes[j] + 1]]
    IN  [shape |-> shape,
         at |-> [idx \in Indices(shape) |->
                    arr.at[[i \in 1..Len(axes) |-> idx[IndexOf(axes, i - 1) + 1]]]]]

\* arr[ints + (slice(None),) * k]: leading integer indices, then full slices
Select(arr, ints) ==
    LET n == Len(ints)
        shape == SubSeq(arr.shape, n + 1, Len(arr.shape))
    IN  [shape |-> shape,
         at |-> [idx \in Indices(shape) |-> arr.at[ints \o idx]]]

-----------------------------------------------------------------------------
(* The file, as tifffile shows it.  A file is [supported, series]; a series *)
(* (scene) is [shape, axes, is_imagej, tags, imagej_metadata].  A tag that  *)
(* the first page does not carry is a field the tags record does not have.  *)

Has(rec, key) == key \in DOMAIN rec

\* the pixel of series k at idx: distinct for distinct (k, idx)
Pixel(file, k, idx) == 100 * k + Offset(file.series[k + 1].shape, idx)

\* tiff.series[k].asarray(), and da.from_zarr(imread(aszarr=True, series=k, level=0))
asarray(file, k) ==
    LET shape == file.series[k + 1].shape
    IN  [shape |-> shape, at |-> [idx \in Indices(shape) |-> Pixel(file, k, idx)]]

from_zarr(file, k) == asarray(file, k)

-----------------------------------------------------------------------------
(* Floats are exact fractions n/d in lowest terms *)

RECURSIVE GCD(_, _)
GCD(a, b) == IF b = 0 THEN a ELSE GCD(b, a % b)

Float(n, d) == LET g == GCD(n, d) IN [kind |-> "float", n |-> n \div g, d |-> d \div g]
FMul(a, b) == Float(a.n * b.n, a.d * b.d)
\* a / i for an integer i # 0
FDivInt(a, i) == Float(a.n, a.d * i)

\* _NAME_TO_MICRONS.get(unit, 1)
NameToMicrons(unit) ==
    CASE unit \in {"pm", "picometer"} -> Float(1, 1000000)
      [] unit \in {"nm", "nanometer"} -> Float(1, 1000)
      [] unit \in {"micron", "<micro>m", "um", "\\u00B5m", "RESUNIT.NONE",
                   "RESUNIT.MICROMETER", "None"} -> Float(1, 1)
      [] unit \in {"mm", "millimeter", "RESUNIT.MILLIMETER"} -> Float(1000, 1)
      [] unit \in {"cm", "centimeter", "RESUNIT.CENTIMETER"} -> Float(10000, 1)
      [] unit \in {"cal", "RESUNIT.INCH"} -> Float(25400, 1)
      [] OTHER -> Float(1, 1)

Raised(exc) == [ok |-> FALSE, exc |-> exc]
Returned(val) == [ok |-> TRUE, val |-> val]

\* _get_pixel_size(path_or_file, series_index); readable: TiffFile can open it
get_pixel_size(file, series_index, readable) ==
    IF ~(file.supported /\ readable) THEN Raised("TiffFileError")
    ELSE IF series_index >= Len(file.series) THEN Raised("IndexError")
    ELSE
    LET scene == file.series[series_index + 1]
        tags == scene.tags
        ij == scene.imagej_metadata
    IN  IF scene.is_imagej /\ ~Has(ij, "unit") THEN Raised("KeyError")
        ELSE IF ~scene.is_imagej /\ ~Has(tags, "ResolutionUnit") THEN Raised("KeyError")
        ELSE
        LET unit == IF scene.is_imagej THEN ij.unit ELSE tags.ResolutionUnit
            z_size == IF scene.is_imagej /\ Has(ij, "spacing")
                      THEN Float(ij.spacing, 1) ELSE None
            scalar == NameToMicrons(unit)
        IN  IF ~Has(tags, "XResolution") \/ ~Has(tags, "YResolution")
            THEN Raised("KeyError")
            ELSE
            LET x_npix == tags.XResolution[1]
                x_res_units == tags.XResolution[2]
                y_npix == tags.YResolution[1]
                y_res_units == tags.YResolution[2]
            IN  IF x_npix = 0 \/ y_npix = 0 THEN Raised("ZeroDivisionError")
                ELSE Returned(
                    [z |-> IF IsNone(z_size) THEN None ELSE FMul(z_size, scalar),
                     y |-> FDivInt(FMul(scalar, Float(y_res_units, 1)), y_npix),
                     x |-> FDivInt(FMul(scalar, Float(x_res_units, 1)), x_npix)])

\* types.PhysicalPixelSizes(z, y, x)
PhysicalPixelSizes(z, y, x) == [kind |-> "PhysicalPixelSizes", Z |-> z, Y |-> y, X |-> x]

-----------------------------------------------------------------------------
(* utils.py *)

\* str(i) for an integer i >= 0, as its decimal digits
RECURSIVE Decimal(_)
Decimal(i) ==
    LET digit(k) == <<"0", "1", "2", "3", "4", "5", "6", "7", "8", "9">>[k + 1]
    IN  IF i < 10 THEN <<digit(i)>> ELSE Decimal(i \div 10) \o <<digit(i % 10)>>

\* f"Image:{image_id}"
generate_ome_image_id(image_id) == <<"Image:">> \o Decimal(image_id)

\* str.replace(old, ""): every occurrence of the token is removed
Replace(s, old) == SelectSeq(s, LAMBDA tok : tok # old)

\* the image id used whole, its "Image:" prefix kept
generate_ome_channel_id_prefixed(image_id, channel_id) ==
    <<"Channel:">> \o image_id \o <<":">> \o Decimal(channel_id)

\* f"Channel:{image_index}:{channel_id}", image_index the id without "Image:"
generate_ome_channel_id(image_id, channel_id) ==
    LET image_index == Replace(image_id, "Image:")
    IN  <<"Channel:">> \o image_index \o <<":">> \o Decimal(channel_id)

-----------------------------------------------------------------------------
(* Dimension order: guess and merge *)

\* s[start:] of Python, start possibly negative
SliceFrom(s, start) ==
    LET n == Len(s)
        from == IF start >= 0 THEN start ELSE IF n + start > 0 THEN n + start ELSE 0
    IN  SubSeq(s, from + 1, n)

\* Reader._guess_dim_order(shape) of bioio_base
guess_dim_order(shape) ==
    SliceFrom(DEFAULT_DIMENSION_ORDER, Len(DEFAULT_DIMENSION_ORDER) - Len(shape))

\* the inner loop without its test against best_guess
RECURSIVE first_free_ignoring_placed(_, _, _)
first_free_ignoring_placed(guessed_dims, best_guess, dims_from_meta) ==
    IF guessed_dims = <<>> THEN None
    ELSE IF ~Contains(dims_from_meta, Head(guessed_dims))
         THEN Str(Head(guessed_dims))
         ELSE first_free_ignoring_placed(Tail(guessed_dims), best_guess, dims_from_meta)

\* the inner loop: the first guessed dim in neither best_guess nor dims_from_meta
RECURSIVE first_free(_, _, _)
first_free(guessed_dims, best_guess, dims_from_meta) ==
    IF guessed_dims = <<>> THEN None
    ELSE IF ~Contains(best_guess, Head(guessed_dims))
            /\ ~Contains(dims_from_meta, Head(guessed_dims))
         THEN Str(Head(guessed_dims))
         ELSE first_free(Tail(guessed_dims), best_guess, dims_from_meta)

RECURSIVE merge_from(_, _, _, _)
merge_from(i, best_guess, dims_from_meta, guessed_dims) ==
    IF i > Len(dims_from_meta) THEN best_guess
    ELSE
    LET dim_from_meta == dims_from_meta[i]
        found == first_free(guessed_dims, best_guess, dims_from_meta)
        next == IF ~Contains(UNKNOWN_DIM_CHARS, dim_from_meta) THEN dim_from_meta
                ELSE IF IsNone(found) THEN dim_from_meta
                ELSE found.val
    IN  merge_from(i + 1, Append(best_guess, next), dims_from_meta, guessed_dims)

_merge_dim_guesses(dims_from_meta, guessed_dims) ==
    merge_from(1, <<>>, dims_from_meta, guessed_dims)

\* scene: tiff.series[self.current_scene_index]
_guess_tiff_dim_order(scene) ==
    LET dims_from_meta == scene.axes
    IN  IF \A i \in DOMAIN dims_from_meta :
              ~Contains(UNKNOWN_DIM_CHARS, dims_from_meta[i])
        THEN dims_from_meta
        ELSE _merge_dim_guesses(dims_from_meta, guess_dim_order(scene.shape))

_get_dims_for_scene(dim_order, scene_index, scene) ==
    IF IsNone(dim_order) THEN _guess_tiff_dim_order(scene)
    ELSE IF IsList(dim_order)
         THEN IF ~IsNone(dim_order.val[scene_index + 1])
              THEN dim_order.val[scene_index + 1].val
              ELSE _guess_tiff_dim_order(scene)
         ELSE dim_order.val

-----------------------------------------------------------------------------
(* Channel names and coordinates *)

_get_channel_names_for_scene(channel_names, scene_index, image_shape, dims) ==
    IF IsNone(channel_names) THEN Returned(None)
    ELSE IF Len(channel_names.val) = 0 THEN Raised("IndexError")
    ELSE
    LET names == channel_names.val
        as_lists == IsList(names[1])
        all_str == \A i \in DOMAIN names : IsStr(names[i])
    IN  IF as_lists /\ scene_index >= Len(names) THEN Raised("IndexError")
        ELSE IF ~as_lists /\ ~all_str THEN Returned(None)
        ELSE
        LET scene_channels == IF as_lists THEN names[scene_index + 1] ELSE channel_names
        IN  IF ~Contains(dims, Channel) THEN Raised("ConflictingArgumentsError")
            ELSE IF IndexOf(dims, Channel) >= Len(image_shape) THEN Raised("IndexError")
            ELSE IF Len(scene_channels.val) # image_shape[IndexOf(dims, Channel) + 1]
                 THEN Raised("ConflictingArgumentsError")
                 ELSE Returned(scene_channels)

\* a dict is the set of its [key, val] items
Keys(dict) == {item.key : item \in dict}
Get(dict, key) == (CHOOSE item \in dict : item.key = key).val

_get_coords(dims, shape, scene_index, channel_names) ==
    IF IsNone(channel_names)
    THEN LET image_id == generate_ome_image_id(scene_index)
         IN  IF ~Contains(dims, Channel) THEN Returned({})
             ELSE IF IndexOf(dims, Channel) >= Len(shape) THEN Raised("IndexError")
             ELSE Returned({[key |-> Channel,
                             val |-> [i \in 1..shape[IndexOf(dims, Channel) + 1] |->
                                         generate_ome_channel_id(image_id, i - 1)]]})
    ELSE Returned({[key |-> Channel, val |-> channel_names.val]})

-----------------------------------------------------------------------------
(* The deferred read: chunk plan, delayed blocks, reassembly *)

\* for dim in REQUIRED_CHUNK_DIMS: if dim not in chunk_dims: chunk_dims.append(dim)
RECURSIVE add_required(_, _)
add_required(dims, required) ==
    IF required = <<>> THEN dims
    ELSE add_required(IF Contains(dims, Head(required)) THEN dims
                      ELSE Append(dims, Head(required)),
                      Tail(required))

\* the request in upper case, the plane dimensions not added
effective_chunk_dims_as_requested(dims) ==
    [i \in 1..Len(dims) |-> Upper(dims[i])]

\* self.chunk_dims after the first two statements of _create_dask_array
effective_chunk_dims(dims) ==
    LET added == add_required(dims, REQUIRED_CHUNK_DIMS)
    IN  [i \in 1..Len(added) |-> Upper(added[i])]

\* the positions (1-based, in order) of the scene dims that are / are not chunked
chunk_positions(scene_dims, chunks, chunked) ==
    SelectSeq([i \in 1..Len(scene_dims) |-> i],
              LAMBDA i : Contains(chunks, scene_dims[i]) = chunked)

Pick(s, positions) == [j \in 1..Len(positions) |-> s[positions[j]]]

\* every delayed call bound to the first cell's indices
MakeTaskFirstIndex(file, scene_index, np_index, n_non_chunk, transposer) ==
    [path |-> file,
     scene |-> scene_index,
     retrieve_indices |-> [i \in 1..n_non_chunk |-> 0],
     transpose_indices |-> transposer]

\* the delayed call built for one cell of lazy_arrays
MakeTask(file, scene_index, np_index, n_non_chunk, transposer) ==
    [path |-> file,
     scene |-> scene_index,
     retrieve_indices |-> SubSeq(np_index, 1, n_non_chunk),
     transpose_indices |-> transposer]

\* transposer: for each dim of the blocked order, match_map[dim], the position
\* at which the dims string first holds it
forward_indices(dims, blocked_dim_order) ==
    [j \in 1..Len(blocked_dim_order) |-> IndexOf(dims, blocked_dim_order[j])]

\* the forward list once more in place of the restoring one
restore_indices_forward(dims, blocked_dim_order) ==
    [j \in 1..Len(blocked_dim_order) |-> IndexOf(dims, blocked_dim_order[j])]

\* transpose_indices: for each dim of the dims string, blocked_dim_order.index(dim)
restore_indices(dims, blocked_dim_order) ==
    [i \in 1..Len(dims) |-> IndexOf(blocked_dim_order, dims[i])]

\* the plan and the grid of delayed blocks; refuses a dims string of the wrong length
_create_dask_array(chunks, file, scene_index, dims) ==
    LET selected_scene == file.series[scene_index + 1]
    IN  IF Len(selected_scene.shape) # Len(dims)
        THEN Raised("ConflictingArgumentsError")
        ELSE
        LET non_chunk == chunk_positions(dims, chunks, FALSE)
            chunk == chunk_positions(dims, chunks, TRUE)
            non_chunk_dim_order == Pick(dims, non_chunk)
            non_chunk_shape == Pick(selected_scene.shape, non_chunk)
            chunk_dim_order == Pick(dims, chunk)
            chunk_shape == Pick(selected_scene.shape, chunk)
            blocked_dim_order == non_chunk_dim_order \o chunk_dim_order
            blocked_shape == non_chunk_shape \o [i \in 1..Len(chunk_shape) |-> 1]
            transposer == forward_indices(dims, blocked_dim_order)
            transpose_indices == restore_indices(dims, blocked_dim_order)
            block_shape == non_chunk_shape \o chunk_shape
        IN  Returned(
                [kind |-> "dask",
                 dims |-> dims,
                 non_chunk_dim_order |-> non_chunk_dim_order,
                 chunk_dim_order |-> chunk_dim_order,
                 non_chunk_shape |-> non_chunk_shape,
                 chunk_shape |-> chunk_shape,
                 blocked_shape |-> blocked_shape,
                 transposer |-> transposer,
                 tasks |-> [np_index \in Indices(blocked_shape) |->
                              MakeTask(file, scene_index, np_index,
                                       Len(non_chunk_shape), transposer)],
                 transpose_indices |-> transpose_indices,
                 shape |-> [i \in 1..Len(dims) |-> block_shape[transpose_indices[i] + 1]]])

\* Reader._get_image_data, between opening the file and closing it
_get_image_data(path, scene, retrieve_indices, transpose_indices) ==
    Select(Transpose(from_zarr(path, scene), transpose_indices), retrieve_indices)

\* da.block(lazy_arrays.tolist()) of the computed blocks, then da.transpose back
Assemble(lazy, values) ==
    LET n == Len(lazy.non_chunk_shape)
        shape == lazy.non_chunk_shape \o lazy.chunk_shape
        cell(idx) == SubSeq(idx, 1, n) \o [i \in 1..Len(lazy.chunk_shape) |-> 0]
        blocked == [shape |-> shape,
                    at |-> [idx \in Indices(shape) |->
                               values[cell(idx)].at[SubSeq(idx, n + 1, Len(idx))]]]
    IN  Transpose(blocked, lazy.transpose_indices)

-----------------------------------------------------------------------------
(* File handles: the set of open [id, owner] *)

ReaderOwner == [kind |-> "reader"]
BlockOwner(np_index) == [kind |-> "block", index |-> np_index]

HandleIds(hs) == {h.id : h \in hs}
FreshHandle(hs) == CHOOSE id \in 1..(Cardinality(hs) + 1) : id \notin HandleIds(hs)

\* fs.open(path).__enter__ and __exit__
OpenHandle(hs, owner) == hs \cup {[id |-> FreshHandle(hs), owner |-> owner]}
CloseHandle(hs, id) == {h \in hs : h.id # id}

\* a whole "with fs.open(path) as open_resource:" statement of a Reader method
WithFile(hs) == CloseHandle(OpenHandle(hs, ReaderOwner), FreshHandle(hs))

-----------------------------------------------------------------------------
(* Reader methods as functions of the fields they read.  Each gives its     *)
(* outcome, the new value of what it assigns, and the file accesses made.   *)

NoCall == [out |-> Returned(None), memo |-> None, log |-> <<>>]

\* Reader._is_supported_image
_is_supported_image(file) == file.supported

\* the scene list read from the file at every access
scenes_get_uncached(file, memo) ==
    IF ~file.supported
    THEN [out |-> Raised("TiffFileError"), memo |-> None,
          log |-> <<"scenes.open", "scenes.TiffFile">>]
    ELSE LET ids == Tuple([i \in 1..Len(file.series) |-> generate_ome_image_id(i - 1)])
         IN  [out |-> Returned(ids), memo |-> ids,
              log |-> <<"scenes.open", "scenes.TiffFile", "scenes.series">>]

\* Reader.scenes
scenes_get(file, memo) ==
    IF ~IsNone(memo) THEN [out |-> Returned(memo), memo |-> memo, log |-> <<>>]
    ELSE IF ~file.supported
    THEN [out |-> Raised("TiffFileError"), memo |-> None,
          log |-> <<"scenes.open", "scenes.TiffFile">>]
    ELSE LET ids == Tuple([i \in 1..Len(file.series) |-> generate_ome_image_id(i - 1)])
         IN  [out |-> Returned(ids), memo |-> ids,
              log |-> <<"scenes.open", "scenes.TiffFile", "scenes.series">>]

\* construction that only enforces a supported image
init_unchecked(file, chunk_arg, dim_order, channel_names) ==
    IF ~_is_supported_image(file)
    THEN [out |-> Raised("UnsupportedFileFormatError"), memo |-> None,
          log |-> <<"check.open", "check.TiffFile">>]
    ELSE [out |-> Returned(None), memo |-> None,
          log |-> <<"check.open", "check.TiffFile">>]

\* Reader.__init__
init(file, chunk_arg, dim_order, channel_names) ==
    LET first == IF IsList(dim_order) THEN scenes_get(file, None) ELSE NoCall
        as_lists == /\ IsList(channel_names)
                    /\ Len(channel_names.val) > 0
                    /\ IsList(channel_names.val[1])
        second == IF as_lists THEN scenes_get(file, first.memo)
                  ELSE [NoCall EXCEPT !.memo = first.memo]
        check_log == <<"check.open", "check.TiffFile">>
    IN  IF ~first.out.ok
        THEN [out |-> first.out, memo |-> None, log |-> first.log]
        ELSE IF IsList(dim_order) /\ Len(dim_order.val) # Len(first.memo.val)
        THEN [out |-> Raised("ConflictingArgumentsError"), memo |-> None,
              log |-> first.log]
        ELSE IF ~second.out.ok
        THEN [out |-> second.out, memo |-> None, log |-> first.log \o second.log]
        ELSE IF as_lists /\ Len(channel_names.val) # Len(second.memo.val)
        THEN [out |-> Raised("ConflictingArgumentsError"), memo |-> None,
              log |-> first.log \o second.log]
        ELSE IF ~_is_supported_image(file)
        THEN [out |-> Raised("UnsupportedFileFormatError"), memo |-> None,
              log |-> first.log \o second.log \o check_log]
        ELSE [out |-> Returned(None), memo |-> second.memo,
              log |-> first.log \o second.log \o check_log]

NoSizes == PhysicalPixelSizes(None, None, None)

\* a handler that catches KeyError alone
AbsorbKeyError(outcome) ==
    IF outcome.ok
    THEN [sizes |-> PhysicalPixelSizes(outcome.val.z, outcome.val.y, outcome.val.x),
          raised |-> None, warned |-> FALSE]
    ELSE IF outcome.exc = "KeyError"
    THEN [sizes |-> NoSizes, raised |-> None, warned |-> TRUE]
    ELSE [sizes |-> NoSizes, raised |-> Str(outcome.exc), warned |-> FALSE]

\* the try / except of Reader.physical_pixel_sizes around _get_pixel_size
Absorb(outcome) ==
    IF outcome.ok
    THEN [sizes |-> PhysicalPixelSizes(outcome.val.z, outcome.val.y, outcome.val.x),
          raised |-> None, warned |-> FALSE]
    ELSE [sizes |-> NoSizes, raised |-> None, warned |-> TRUE]

\* Reader.physical_pixel_sizes
physical_pixel_sizes_get(file, scene_index, memo, readable) ==
    IF ~IsNone(memo) THEN [out |-> Returned(memo), memo |-> memo, log |-> <<>>]
    ELSE
    LET got == Absorb(get_pixel_size(file, scene_index, readable))
        read_log == <<"pps.open", "pps.TiffFile">>
                    \o (IF file.supported /\ readable THEN <<"pps.tags">> ELSE <<>>)
                    \o (IF got.warned THEN <<"warn">> ELSE <<>>)
    IN  IF ~IsNone(got.raised)
        THEN [out |-> Raised(got.raised.val), memo |-> None, log |-> read_log]
        ELSE [out |-> Returned(got.sizes), memo |-> got.sizes, log |-> read_log]

\* xr.DataArray(image_data, dims=dims, coords=coords, attrs=attrs)
DataArray(image_data, dims, coords) ==
    IF Len(dims) # Len(image_data.shape) THEN Raised("ValueError")
    ELSE Returned([kind |-> "DataArray", data |-> image_data, dims |-> dims,
                   coords |-> coords])

\* what both reads do once they hold image_data
label(image_data, dims, channel_names, scene_index, events) ==
    LET channels == _get_channel_names_for_scene(channel_names, scene_index,
                                                 image_data.shape, dims)
    IN  IF ~channels.ok THEN [out |-> channels, log |-> events \o <<"read.tags">>]
        ELSE
        LET coords == _get_coords(dims, image_data.shape, scene_index, channels.val)
        IN  [out |-> IF ~coords.ok THEN coords
                     ELSE DataArray(image_data, dims, coords.val),
             log |-> events \o <<"read.tags">>]

\* Reader._read_delayed
_read_delayed(file, scene_index, chunks, dim_order, channel_names) ==
    LET dims == _get_dims_for_scene(dim_order, scene_index, file.series[scene_index + 1])
        lazy == _create_dask_array(effective_chunk_dims(chunks), file, scene_index, dims)
        opened == <<"read.open", "read.TiffFile">>
    IN  IF ~lazy.ok THEN [out |-> lazy, log |-> opened]
        ELSE label(lazy.val, dims, channel_names, scene_index, opened)

\* Reader._read_immediate
_read_immediate(file, scene_index, dim_order, channel_names) ==
    LET dims == _get_dims_for_scene(dim_order, scene_index, file.series[scene_index + 1])
        image_data == [kind |-> "numpy"] @@ asarray(file, scene_index)
    IN  label(image_data, dims, channel_names, scene_index,
              <<"read.open", "read.TiffFile", "read.pixels">>)

-----------------------------------------------------------------------------
(* Bounds *)

\* blocks that may be in evaluation at once (the scheduler's workers)
MaxWorkers == 2
\* the reads on every small scene: up to MaxRank axes, of size up to MaxSize
MaxRank == 3
MaxSize == 2

-----------------------------------------------------------------------------
(* The files and the constructor arguments the reader is run on *)

Scene(shape, axes, is_imagej, tags, imagej_metadata) ==
    [shape |-> shape, axes |-> axes, is_imagej |-> is_imagej, tags |-> tags,
     imagej_metadata |-> imagej_metadata]

NoImageJ == [ImageJ |-> "absent"]

\* not a TIFF
NotTiff == [supported |-> FALSE, series |-> <<>>]

\* one scene, 4 pixels per centimeter, first axis unknown to tifffile
OneScene ==
    [supported |-> TRUE,
     series |-> <<Scene(<<3, 1, 2>>, <<"Q", "Y", "X">>, FALSE,
                        [ImageWidth |-> 2, XResolution |-> <<4, 1>>,
                         YResolution |-> <<4, 1>>,
                         ResolutionUnit |-> "RESUNIT.CENTIMETER"],
                        NoImageJ)>>]

\* two scenes: no ResolutionUnit tag; ImageJ metadata and a zero numerator
TwoScenes ==
    [supported |-> TRUE,
     series |-> <<Scene(<<2, 2, 1>>, <<"Z", "Y", "X">>, FALSE,
                        [ImageWidth |-> 1, XResolution |-> <<2, 1>>,
                         YResolution |-> <<2, 1>>],
                        NoImageJ),
                  Scene(<<2, 2, 1>>, <<"C", "Y", "X">>, TRUE,
                        [ImageWidth |-> 1, XResolution |-> <<0, 1>>,
                         YResolution |-> <<3, 1>>,
                         ResolutionUnit |-> "RESUNIT.NONE"],
                        [ImageJ |-> "1.53", unit |-> "micron", spacing |-> 3])>>]

\* one ImageJ scene without a unit entry and without a YResolution tag
Stack ==
    [supported |-> TRUE,
     series |-> <<Scene(<<2, 2>>, <<"I", "X">>, TRUE,
                        [ImageWidth |-> 2, XResolution |-> <<1, 1>>],
                        [ImageJ |-> "1.53"])>>]

Files == {NotTiff, OneScene, TwoScenes, Stack}

ChunkArgs == {List(DEFAULT_CHUNK_DIMS), Str(<<"t">>)}

DimOrderArgs ==
    {None,
     Str(<<"C", "Y", "X">>),
     Str(<<"Y", "X">>),
     List(<<>>),
     List(<<None>>),
     List(<<Str(<<"T", "Y", "X">>), None>>),
     List(<<None, None, None>>)}

TwoNames == List(<<Str("a"), Str("b")>>)

ChannelArgs ==
    {None,
     TwoNames,
     List(<<>>),
     List(<<TwoNames>>),
     List(<<TwoNames, TwoNames>>),
     List(<<TwoNames, TwoNames, TwoNames>>)}

-----------------------------------------------------------------------------
(* State *)

Idle == [pc |-> "idle", handle |-> 0, val |-> None]

NoReader ==
    /\ alive' = FALSE
    /\ image' = None
    /\ chunk_dims' = <<>>
    /\ _dim_order' = None
    /\ _channel_names' = None
    /\ _scenes' = None
    /\ _physical_pixel_sizes' = None
    /\ _current_scene_index' = 0

Init ==
    /\ alive = FALSE
    /\ image = None
    /\ chunk_dims = <<>>
    /\ _dim_order = None
    /\ _channel_names = None
    /\ _scenes = None
    /\ _physical_pixel_sizes = None
    /\ _current_scene_index = 0
    /\ result = [op |-> "none"]
    /\ log = <<>>
    /\ grid = None
    /\ blocks = <<>>
    /\ handles = {}

Evaluating == {b \in DOMAIN blocks : blocks[b].pc = "open"}

\* range(len(self.scenes))
SceneIndices == IF alive THEN 0..(Len(image.series) - 1) ELSE {}

\* Reader(image, chunk_dims, dim_order, channel_names), when the program holds none
Construct(file, chunk_arg, dim_order, channel_names) ==
    /\ ~alive
    /\ LET r == init(file, chunk_arg, dim_order, channel_names)
       IN  /\ IF r.out.ok
              THEN /\ alive' = TRUE
                   /\ image' = file
                   /\ chunk_dims' = chunk_arg.val
                   /\ _dim_order' = dim_order
                   /\ _channel_names' = channel_names
                   /\ _scenes' = r.memo
                   /\ _physical_pixel_sizes' = None
                   /\ _current_scene_index' = 0
              ELSE NoReader
           /\ result' = [op |-> "init", out |-> r.out, file |-> file,
                         dim_order |-> dim_order, channel_names |-> channel_names]
           /\ log' = r.log
    /\ grid' = None
    /\ blocks' = <<>>
    /\ handles' = WithFile(handles)

\* the program drops the reader and its arrays, once no block is in evaluation
Discard ==
    /\ alive
    /\ handles = {}
    /\ NoReader
    /\ result' = [op |-> "none"]
    /\ log' = <<>>
    /\ grid' = None
    /\ blocks' = <<>>
    /\ UNCHANGED handles

\* reader.scenes
Scenes ==
    /\ alive
    /\ LET r == scenes_get(image, _scenes)
       IN  /\ _scenes' = r.memo
           /\ result' = [op |-> "scenes", out |-> r.out]
           /\ log' = r.log
           /\ handles' = IF r.log = <<>> THEN handles ELSE WithFile(handles)
    /\ UNCHANGED <<alive, image, chunk_dims, _dim_order, _channel_names,
                   _physical_pixel_sizes, _current_scene_index, grid, blocks>>

\* reader.physical_pixel_sizes; readable: TiffFile can still open the file
PixelSizes(readable) ==
    /\ alive
    /\ LET r == physical_pixel_sizes_get(image, _current_scene_index,
                                         _physical_pixel_sizes, readable)
       IN  /\ _physical_pixel_sizes' = r.memo
           /\ result' = [op |-> "physical_pixel_sizes", out |-> r.out,
                         readable |-> readable \/ r.log = <<>>]
           /\ log' = r.log
           /\ handles' = IF r.log = <<>> THEN handles ELSE WithFile(handles)
    /\ UNCHANGED <<alive, image, chunk_dims, _dim_order, _channel_names,
                   _scenes, _current_scene_index, grid, blocks>>

\* reader.set_scene(k) of the base class, for another scene of the file
SetScene(k) ==
    /\ alive
    /\ k \in SceneIndices
    /\ k # _current_scene_index
    /\ LET r == scenes_get(image, _scenes)
       IN  /\ _scenes' = r.memo
           /\ log' = r.log
           /\ handles' = IF r.log = <<>> THEN handles ELSE WithFile(handles)
    /\ _current_scene_index' = k
    /\ result' = [op |-> "set_scene", out |-> Returned(None)]
    /\ UNCHANGED <<alive, image, chunk_dims, _dim_order, _channel_names,
                   _physical_pixel_sizes, grid, blocks>>

\* reader._read_delayed(), once no block of the previous array is in evaluation
ReadDelayed ==
    /\ alive
    /\ handles = {}
    /\ LET r == _read_delayed(image, _current_scene_index, chunk_dims,
                              _dim_order, _channel_names)
       IN  /\ result' = [op |-> "read_delayed", out |-> r.out]
           /\ log' = r.log
           /\ IF r.out.ok
              THEN /\ grid' = r.out.val.data
                   /\ blocks' = [b \in DOMAIN r.out.val.data.tasks |-> Idle]
              ELSE UNCHANGED <<grid, blocks>>
    /\ chunk_dims' = effective_chunk_dims(chunk_dims)
    /\ handles' = WithFile(handles)
    /\ UNCHANGED <<alive, image, _dim_order, _channel_names, _scenes,
                   _physical_pixel_sizes, _current_scene_index>>

\* reader._read_immediate()
ReadImmediate ==
    /\ alive
    /\ LET r == _read_immediate(image, _current_scene_index, _dim_order,
                                _channel_names)
       IN  /\ result' = [op |-> "read_immediate", out |-> r.out]
           /\ log' = r.log
    /\ handles' = WithFile(handles)
    /\ UNCHANGED <<reader_fields, grid, blocks>>

\* a worker starts a delayed block: _get_image_data opens the file
ForceOpen(b) ==
    /\ ~IsNone(grid)
    /\ b \in DOMAIN blocks
    /\ blocks[b].pc # "open"
    /\ Cardinality(Evaluating) < MaxWorkers
    /\ blocks' = [blocks EXCEPT ![b] = [pc |-> "open", handle |-> FreshHandle(handles),
                                        val |-> None]]
    /\ handles' = OpenHandle(handles, BlockOwner(b))
    /\ UNCHANGED <<reader_fields, result, log, grid>>

\* the block reads the reader's current scene instead of the one it was built for
ForceReadCurrentScene(b) ==
    /\ b \in DOMAIN blocks
    /\ blocks[b].pc = "open"
    /\ LET task == grid.tasks[b]
       IN  blocks' = [blocks EXCEPT ![b] =
                        [pc |-> "done", handle |-> 0,
                         val |-> _get_image_data(task.path, _current_scene_index,
                                                 task.retrieve_indices,
                                                 task.transpose_indices)]]
    /\ handles' = CloseHandle(handles, blocks[b].handle)
    /\ UNCHANGED <<reader_fields, result, log, grid>>

\* the block reads its data and returns: the with statements close the file
ForceRead(b) ==
    /\ b \in DOMAIN blocks
    /\ blocks[b].pc = "open"
    /\ LET task == grid.tasks[b]
       IN  blocks' = [blocks EXCEPT ![b] =
                        [pc |-> "done", handle |-> 0,
                         val |-> _get_image_data(task.path, task.scene,
                                                 task.retrieve_indices,
                                                 task.transpose_indices)]]
    /\ handles' = CloseHandle(handles, blocks[b].handle)
    /\ UNCHANGED <<reader_fields, result, log, grid>>

\* the read raises and the file is left open
ForceFailLeak(b) ==
    /\ b \in DOMAIN blocks
    /\ blocks[b].pc = "open"
    /\ blocks' = [blocks EXCEPT ![b] = [pc |-> "failed", handle |-> 0, val |-> None]]
    /\ UNCHANGED <<reader_fields, result, log, grid, handles>>

\* the read raises: the with statements close the file as the error leaves
ForceFail(b) ==
    /\ b \in DOMAIN blocks
    /\ blocks[b].pc = "open"
    /\ blocks' = [blocks EXCEPT ![b] = [pc |-> "failed", handle |-> 0, val |-> None]]
    /\ handles' = CloseHandle(handles, blocks[b].handle)
    /\ UNCHANGED <<reader_fields, result, log, grid>>

\* array.compute() on the synchronous scheduler: every block, one after another
Compute ==
    /\ ~IsNone(grid)
    /\ handles = {}
    /\ blocks' = [b \in DOMAIN blocks |->
                    LET task == grid.tasks[b]
                    IN  [pc |-> "done", handle |-> 0,
                         val |-> _get_image_data(task.path, task.scene,
                                                 task.retrieve_indices,
                                                 task.transpose_indices)]]
    /\ handles' = CloseHandle(OpenHandle(handles, ReaderOwner), FreshHandle(handles))
    /\ UNCHANGED <<reader_fields, result, log, grid>>

Next ==
    \/ \E file \in Files, chunk_arg \in ChunkArgs, dim_order \in DimOrderArgs,
          channel_names \in ChannelArgs :
          Construct(file, chunk_arg, dim_order, channel_names)
    \/ Discard
    \/ Scenes
    \/ \E readable \in BOOLEAN : PixelSizes(readable)
    \/ \E k \in SceneIndices : SetScene(k)
    \/ ReadDelayed
    \/ ReadImmediate
    \/ \E b \in DOMAIN blocks : ForceOpen(b)
    \/ \E b \in DOMAIN blocks : ForceRead(b)
    \/ \E b \in DOMAIN blocks : ForceFail(b)
    \/ Compute

Spec == Init /\ [][Next]_vars

-----------------------------------------------------------------------------
(* The reads on every small scene: one file of one scene for each shape,    *)
(* each order of distinct axis labels, and each requested chunk_dims.       *)

Labels == {"C", "Z", "Y", "X", "S"}

\* an axis is a singleton or has the largest size
Shapes == UNION {[1..n -> {1, MaxSize}] : n \in 1..MaxRank}

AxisOrders(n) ==
    {axes \in [1..n -> Labels] : \A i, j \in 1..n : i # j => axes[i] # axes[j]}

ChunkRequests ==
    {DEFAULT_CHUNK_DIMS, <<"c">>, <<"Y">>, <<"C", "Z">>}

InitRead ==
    \E shape \in Shapes :
      \E axes \in AxisOrders(Len(shape)), chunks \in ChunkRequests :
        /\ alive = TRUE
        /\ image = [supported |-> TRUE,
                    series |-> <<Scene(shape, axes, FALSE, [ImageWidth |-> 1], NoImageJ)>>]
        /\ chunk_dims = chunks
        /\ _dim_order = None
        /\ _channel_names = None
        /\ _scenes = None
        /\ _physical_pixel_sizes = None
        /\ _current_scene_index = 0
        /\ result = [op |-> "none"]
        /\ log = <<>>
        /\ grid = None
        /\ blocks = <<>>
        /\ handles = {}

NextRead ==
    \/ ReadDelayed
    \/ Compute
    \/ ReadImmediate

SpecRead == InitRead /\ [][NextRead]_vars

-----------------------------------------------------------------------------
(* The chunk plan alone: every dims string over the labels, a label repeated
   or not, on a scene of the same rank *)

DimStrings(n) == [1..n -> Labels]

InitPlan ==
    \E shape \in Shapes :
      \E axes \in DimStrings(Len(shape)), chunks \in ChunkRequests :
        /\ alive = TRUE
        /\ image = [supported |-> TRUE,
                    series |-> <<Scene(shape, axes, FALSE, [ImageWidth |-> 1], NoImageJ)>>]
        /\ chunk_dims = chunks
        /\ _dim_order = None
        /\ _channel_names = None
        /\ _scenes = None
        /\ _physical_pixel_sizes = None
        /\ _current_scene_index = 0
        /\ result = [op |-> "none"]
        /\ log = <<>>
        /\ grid = None
        /\ blocks = <<>>
        /\ handles = {}

NextPlan == ReadDelayed

SpecPlan == InitPlan /\ [][NextPlan]_vars

-----------------------------------------------------------------------------
(* Dimension inference alone: every axes string over the unknown characters
   and the labels, on a scene of the same rank *)

HintChars == {"Q", "I", "C", "Z", "Y", "X"}

Hints(n) == [1..n -> HintChars]

InitInfer ==
    \E shape \in Shapes :
      \E axes \in Hints(Len(shape)) :
        /\ alive = TRUE
        /\ image = [supported |-> TRUE,
                    series |-> <<Scene(shape, axes, FALSE, [ImageWidth |-> 1], NoImageJ)>>]
        /\ chunk_dims = DEFAULT_CHUNK_DIMS
        /\ _dim_order = None
        /\ _channel_names = None
        /\ _scenes = None
        /\ _physical_pixel_sizes = None
        /\ _current_scene_index = 0
        /\ result = [op |-> "none"]
        /\ log = <<>>
        /\ grid = None
        /\ blocks = <<>>
        /\ handles = {}

\* reader._guess_tiff_dim_order(tiff) on the open file
Infer ==
    /\ alive
    /\ LET scene == image.series[_current_scene_index + 1]
       IN  result' = [op |-> "infer",
                      hint |-> scene.axes,
                      out |-> Returned(_guess_tiff_dim_order(scene))]
    /\ UNCHANGED <<reader_fields, log, grid, blocks, handles>>

\* the same call on a scene of the same shape whose axes are the dims last
\* inferred
Reinfer ==
    /\ alive
    /\ result.op \in {"infer", "reinfer"}
    /\ LET scene == image.series[_current_scene_index + 1]
           again == [scene EXCEPT !.axes = result.out.val]
       IN  result' = [op |-> "reinfer",
                      hint |-> again.axes,
                      out |-> Returned(_guess_tiff_dim_order(again))]
    /\ UNCHANGED <<reader_fields, log, grid, blocks, handles>>

NextInfer ==
    \/ Infer
    \/ Reinfer

SpecInfer == InitInfer /\ [][NextInfer]_vars

-----------------------------------------------------------------------------
(* Properties *)

AllDone == \A b \in DOMAIN blocks : blocks[b].pc = "done"
Values == [b \in DOMAIN blocks |-> blocks[b].val]
SameArray(a, b) ==
    /\ a.shape = b.shape
    /\ \A idx \in Indices(a.shape) : a.at[idx] = b.at[idx]

Identity(n) == [i \in 1..n |-> i - 1]

\* C1: once every block of the deferred read of a scene has been forced, the
\* assembled array has the shape and, at every index, the element of the array
\* the immediate read of the same scene returns.
C1_LazyEqualsImmediate ==
    (/\ ~IsNone(grid)
     /\ AllDone
     /\ result.op = "read_immediate"
     /\ result.out.ok
     /\ \A b \in DOMAIN blocks : grid.tasks[b].scene = _current_scene_index)
    => SameArray(Assemble(grid, Values), result.out.val.data)

\* a grid of several blocks whose plan reorders the axes, forced, beside the
\* immediate read
C1_Witness ==
    /\ ~IsNone(grid)
    /\ AllDone
    /\ result.op = "read_immediate"
    /\ result.out.ok
    /\ Cardinality(DOMAIN blocks) > 1
    /\ grid.transposer # Identity(Len(grid.dims))
    /\ grid.chunk_shape # <<>>

\* the region of the scene a block stands for, read off the plain array: the
\* element at chunk index c of block b is the pixel whose index has, at every
\* axis, the component b or c gives for that axis label
Region(lazy, b) ==
    LET task == lazy.tasks[b]
        whole == asarray(task.path, task.scene)
        at_axis(i, c) ==
            IF Contains(lazy.non_chunk_dim_order, lazy.dims[i])
            THEN b[IndexOf(lazy.non_chunk_dim_order, lazy.dims[i]) + 1]
            ELSE c[IndexOf(lazy.chunk_dim_order, lazy.dims[i]) + 1]
    IN  [shape |-> lazy.chunk_shape,
         at |-> [c \in Indices(lazy.chunk_shape) |->
                    whole.at[[i \in 1..Len(lazy.dims) |-> at_axis(i, c)]]]]

\* C2: whatever blocks have been forced, in whatever order and interleaved with
\* whatever calls on the reader, each forced block holds exactly the region
\* of the scene it was built for.
C2_BlocksArePure ==
    \A b \in DOMAIN blocks :
        blocks[b].pc = "done" => SameArray(blocks[b].val, Region(grid, b))

\* one block forced, another in evaluation, and the reader moved to another scene
C2_Witness ==
    \E b1, b2 \in DOMAIN blocks :
        /\ blocks[b1].pc = "done"
        /\ blocks[b2].pc = "open"
        /\ grid.tasks[b1].scene # _current_scene_index

\* C3: every open file handle is the one handle of exactly one block in
\* evaluation; no two blocks share one; a block that has returned or failed
\* holds none; none is held by the reader that built the grid.
C3_HandlePerBlock ==
    /\ \A h \in handles :
          /\ h.owner.kind = "block"
          /\ h.owner.index \in DOMAIN blocks
          /\ blocks[h.owner.index].pc = "open"
          /\ blocks[h.owner.index].handle = h.id
    /\ \A h1, h2 \in handles : h1.id = h2.id => h1 = h2
    /\ \A b \in DOMAIN blocks :
          IF blocks[b].pc = "open"
          THEN [id |-> blocks[b].handle, owner |-> BlockOwner(b)] \in handles
          ELSE blocks[b].handle = 0

\* two blocks in evaluation at once, after another has failed
C3_Witness ==
    /\ Cardinality(handles) = 2
    /\ \E b \in DOMAIN blocks : blocks[b].pc = "failed"

ReadEvents ==
    {"scenes.open", "scenes.TiffFile", "scenes.series", "pps.open", "pps.TiffFile",
     "pps.tags", "read.open", "read.TiffFile", "read.tags", "read.pixels"}
OpenEvents == {"scenes.open", "pps.open", "read.open", "check.open"}

\* C4: constructing a Reader on a file that is no recognized container raises
\* UnsupportedFileFormatError, whatever the other arguments, and nothing of the
\* file is read (scene list, tags, pixels) before it is raised.
C4_UnsupportedFormatFirst ==
    (result.op = "init" /\ ~result.file.supported)
    => /\ result.out = Raised("UnsupportedFileFormatError")
       /\ Range(log) \cap ReadEvents = {}

\* a list of channel-name lists: a list that holds lists
IsListOfLists(v) ==
    /\ IsList(v)
    /\ Len(v.val) > 0
    /\ \A i \in DOMAIN v.val : IsList(v.val[i])

\* C5: on a readable file, a dim_order list or a list of channel-name lists
\* whose length is not the number of scenes makes construction raise
\* ConflictingArgumentsError: no instance exists and no pixel has been read.
C5_ConflictingLists ==
    (/\ result.op = "init"
     /\ result.file.supported
     /\ \/ IsList(result.dim_order)
           /\ Len(result.dim_order.val) # Len(result.file.series)
        \/ IsListOfLists(result.channel_names)
           /\ Len(result.channel_names.val) # Len(result.file.series))
    => /\ result.out = Raised("ConflictingArgumentsError")
       /\ ~alive
       /\ IsNone(image) /\ IsNone(_dim_order) /\ IsNone(_channel_names)
       /\ "read.pixels" \notin Range(log)

\* a file of two scenes given three dimension strings
C5_Witness ==
    /\ result.op = "init"
    /\ result.file.supported
    /\ Len(result.file.series) = 2
    /\ IsList(result.dim_order)
    /\ Len(result.dim_order.val) = 3
    /\ result.out = Raised("ConflictingArgumentsError")

\* the dims the reader resolves for its current scene
ResolvedDims ==
    _get_dims_for_scene(_dim_order, _current_scene_index,
                        image.series[_current_scene_index + 1])
CurrentShape == image.series[_current_scene_index + 1].shape

\* C6: a read, deferred or immediate, of a scene whose resolved dims differ in
\* length from its shape raises ConflictingArgumentsError before any pixel is
\* read, any block is created or any array is returned.
C6_ShapeContract ==
    (/\ result.op \in {"read_delayed", "read_immediate"}
     /\ Len(ResolvedDims) # Len(CurrentShape))
    => /\ result.out = Raised("ConflictingArgumentsError")
       /\ "read.pixels" \notin Range(log)

Deficient(scene) ==
    \/ ~Has(scene.tags, "XResolution")
    \/ ~Has(scene.tags, "YResolution")
    \/ scene.is_imagej /\ ~Has(scene.imagej_metadata, "unit")
    \/ ~scene.is_imagej /\ ~Has(scene.tags, "ResolutionUnit")
    \/ Has(scene.tags, "XResolution") /\ scene.tags.XResolution[1] = 0
    \/ Has(scene.tags, "YResolution") /\ scene.tags.YResolution[1] = 0

\* C7: when the pixel size is computed and the tags cannot be resolved (a tag
\* or the unit entry is missing, a numerator is zero, the file cannot be
\* opened as a TIFF), the property returns all-None sizes with a warning,
\* raises nothing, holds no file open and leaves the reader able to read.
C7_FailuresAbsorbed ==
    (/\ result.op = "physical_pixel_sizes"
     /\ "pps.open" \in Range(log)
     /\ ~result.readable \/ Deficient(image.series[_current_scene_index + 1]))
    => /\ result.out = Returned(NoSizes)
       /\ "warn" \in Range(log)
       /\ alive
       /\ \A h \in handles : h.owner.kind = "block"
       /\ ENABLED ReadImmediate

\* the pixel size asked of the scene whose XResolution numerator is zero
C7_Witness ==
    /\ result.op = "physical_pixel_sizes"
    /\ "warn" \in Range(log)
    /\ result.readable
    /\ Has(image.series[_current_scene_index + 1].tags, "XResolution")
    /\ image.series[_current_scene_index + 1].tags.XResolution[1] = 0
    /\ result.out = Returned(NoSizes)

\* the unit token of a scene, "None" when it has none
UnitToken(scene) ==
    IF scene.is_imagej
    THEN IF Has(scene.imagej_metadata, "unit") THEN scene.imagej_metadata.unit ELSE "None"
    ELSE IF Has(scene.tags, "ResolutionUnit") THEN scene.tags.ResolutionUnit ELSE "None"

\* C8: for a scene that carries XResolution and YResolution (numerator not
\* zero), the sizes computed are X = s * denominator / numerator and Y
\* likewise, s the scalar of the scene's unit token and 1 when the token is
\* unknown or absent: the unit never makes the resolution fail.
C8_SizeFromFraction ==
    LET scene == image.series[_current_scene_index + 1]
    IN  (/\ result.op = "physical_pixel_sizes"
         /\ "pps.open" \in Range(log)
         /\ result.readable
         /\ Has(scene.tags, "XResolution") /\ scene.tags.XResolution[1] # 0
         /\ Has(scene.tags, "YResolution") /\ scene.tags.YResolution[1] # 0)
        => LET s == NameToMicrons(UnitToken(scene))
           IN  /\ result.out.ok
               /\ result.out.val.X = Float(s.n * scene.tags.XResolution[2],
                                           s.d * scene.tags.XResolution[1])
               /\ result.out.val.Y = Float(s.n * scene.tags.YResolution[2],
                                           s.d * scene.tags.YResolution[1])

NoOpen(events) == Range(events) \cap OpenEvents = {}

C9_Step ==
    (alive /\ alive')
    => /\ ~IsNone(_scenes) => _scenes' = _scenes
       /\ ~IsNone(_physical_pixel_sizes)
            => _physical_pixel_sizes' = _physical_pixel_sizes
       /\ (Scenes /\ ~IsNone(_scenes))
            => result'.out = Returned(_scenes) /\ NoOpen(log')
       /\ ((\E readable \in BOOLEAN : PixelSizes(readable))
              /\ ~IsNone(_physical_pixel_sizes))
            => result'.out = Returned(_physical_pixel_sizes) /\ NoOpen(log')

\* C9: while the instance lives, a scene list or pixel size once computed
\* (all-None sizes included) never changes, and every later access returns it
\* without opening the file.
C9_ComputedOnce == [][C9_Step]_vars

\* all-None sizes returned from the memo, after the reader moved to another scene
C9_Witness ==
    /\ result.op = "physical_pixel_sizes"
    /\ log = <<>>
    /\ result.out = Returned(NoSizes)
    /\ ~IsNone(_scenes)
    /\ _current_scene_index # 0

\* C10: a labeled array read with no channel names supplied has, when its
\* dims hold the channel axis, the channel coordinate Channel:k:0 ..
\* Channel:k:(n-1), k the index of its scene and n the size of that axis, and
\* has no channel coordinate when its dims hold no channel axis.
C10_ChannelCoords ==
    (/\ result.op \in {"read_delayed", "read_immediate"}
     /\ result.out.ok
     /\ IsNone(_channel_names))
    => LET array == result.out.val
           k == _current_scene_index
           n == array.data.shape[IndexOf(array.dims, "C") + 1]
       IN  /\ generate_ome_image_id(k) = <<"Image:">> \o Decimal(k)
           /\ IF Contains(array.dims, "C")
              THEN /\ Keys(array.coords) = {"C"}
                   /\ Get(array.coords, "C") =
                        [i \in 1..n |->
                            <<"Channel:">> \o Decimal(k) \o <<":">> \o Decimal(i - 1)]
              ELSE array.coords = {}

\* the second scene, read with its two channels named by index
C10_Witness ==
    /\ result.op = "read_delayed"
    /\ result.out.ok
    /\ IsNone(_channel_names)
    /\ _current_scene_index = 1
    /\ Keys(result.out.val.coords) = {"C"}
    /\ Len(Get(result.out.val.coords, "C")) = 2


\* the chunk axes in effect for a request: its labels in upper case, with the
\* spatial and samples axes
EffectiveAxes(request) ==
    {Upper(request[i]) : i \in DOMAIN request} \cup {"Y", "X", "S"}

\* the plan lazy splits dims and shape, in their order, by membership in eff
Partitions(lazy, dims, shape, eff) ==
    LET chunked(p) == dims[p] \in eff
        nth(p) == Cardinality({q \in 1..p : chunked(q) = chunked(p)})
    IN  /\ Len(lazy.non_chunk_dim_order) + Len(lazy.chunk_dim_order) = Len(dims)
        /\ Len(lazy.non_chunk_shape) = Len(lazy.non_chunk_dim_order)
        /\ Len(lazy.chunk_shape) = Len(lazy.chunk_dim_order)
        /\ \A p \in 1..Len(dims) :
              IF chunked(p)
              THEN /\ nth(p) <= Len(lazy.chunk_dim_order)
                   /\ lazy.chunk_dim_order[nth(p)] = dims[p]
                   /\ lazy.chunk_shape[nth(p)] = shape[p]
              ELSE /\ nth(p) <= Len(lazy.non_chunk_dim_order)
                   /\ lazy.non_chunk_dim_order[nth(p)] = dims[p]
                   /\ lazy.non_chunk_shape[nth(p)] = shape[p]
        /\ \A p \in 1..Len(dims) :
              dims[p] \in {"Y", "X", "S"} =>
                 /\ Contains(lazy.chunk_dim_order, dims[p])
                 /\ ~Contains(lazy.non_chunk_dim_order, dims[p])

\* the grid holds one block for each tuple of non-chunked indices, and no other
OneBlockPerTuple(lazy) ==
    /\ Cardinality(DOMAIN lazy.tasks) = Product(lazy.non_chunk_shape)
    /\ {lazy.tasks[b].retrieve_indices : b \in DOMAIN lazy.tasks}
          = Indices(lazy.non_chunk_shape)
    /\ \A b \in DOMAIN lazy.tasks :
          SubSeq(b, 1, Len(lazy.non_chunk_shape)) = lazy.tasks[b].retrieve_indices

C11_Step ==
    (ReadDelayed /\ result'.out.ok)
    => /\ Partitions(grid', ResolvedDims, CurrentShape, EffectiveAxes(chunk_dims))
       /\ OneBlockPerTuple(grid')
       /\ DOMAIN blocks' = DOMAIN grid'.tasks

\* C11: every deferred read of a scene, for every dims string of the length of
\* its shape and every chunk request, splits the axes into a non-chunked and
\* a chunked group that together hold every axis once, each in the order of
\* the dims string, with every Y, X and S axis chunked although the request
\* omits it, and builds exactly one block per tuple of non-chunked indices.
C11_PlanPartitions == [][C11_Step]_vars

\* a request for the channel axis alone, on a scene with Y and Z axes: Y is
\* chunked, Z is not, and the grid has a block per Z index
C11_Witness ==
    /\ result.op = "read_delayed"
    /\ result.out.ok
    /\ chunk_dims = <<"C", "Y", "X", "S">>
    /\ Contains(grid.chunk_dim_order, "Y")
    /\ Contains(grid.non_chunk_dim_order, "Z")
    /\ Cardinality(DOMAIN blocks) > 1


IsPermutation(indices, n) ==
    /\ Len(indices) = n
    /\ {indices[i] : i \in DOMAIN indices} = 0..(n - 1)

Inverses(forward, restore) ==
    /\ Len(forward) = Len(restore)
    /\ \A i \in DOMAIN forward : restore[forward[i] + 1] = i - 1
    /\ \A i \in DOMAIN restore : forward[restore[i] + 1] = i - 1

\* the two index lists of a plan undo each other on the array of its scene
\* (axes in dims order) and on the same array in blocked order
PlanRoundTrip(lazy) ==
    LET n == Len(lazy.dims)
        original == asarray(image, _current_scene_index)
        blocked == Transpose(original, lazy.transposer)
    IN  /\ IsPermutation(lazy.transposer, n)
        /\ IsPermutation(lazy.transpose_indices, n)
        /\ Inverses(lazy.transposer, lazy.transpose_indices)
        /\ SameArray(Transpose(blocked, lazy.transpose_indices), original)
        /\ SameArray(Transpose(Transpose(blocked, lazy.transpose_indices),
                               lazy.transposer), blocked)
        /\ SameArray(Transpose(Transpose(original, lazy.transpose_indices),
                               lazy.transposer), original)

Distinct(s) == \A i, j \in DOMAIN s : i # j => s[i] # s[j]

IsPlaceholder(d) == Contains(UNKNOWN_DIM_CHARS, d)

\* C13: inferring the dims of a scene from axes that are themselves the
\* outcome of the inference on a scene of that shape returns those axes
\* unchanged.
C13_InferIdempotent ==
    result.op = "reinfer" => result.out = Returned(result.hint)

\* a hint with an unknown axis beside a label of the shape-only guess: the first
\* inference changed it, the second left its outcome alone
C13_Witness ==
    /\ result.op = "reinfer"
    /\ LET axes == image.series[_current_scene_index + 1].axes
       IN  /\ \E i \in DOMAIN axes : IsPlaceholder(axes[i])
           /\ Contains(axes, "Y")
           /\ result.hint # axes
    /\ result.out = Returned(result.hint)

=============================================================================
